---- MODULE Spec2Model ----
(***************************************************************************)
(* Model of the geofence evaluation service:                               *)
(*   - POST /api/events/position (position report route),                  *)
(*   - GeofenceEvaluator.evaluatePosition / performEvaluation,             *)
(*   - getCachedGeofences / invalidateGeofenceCache,                       *)
(*   - the geofence CRUD routes (POST, PATCH, DELETE),                     *)
(*   - isPointInPolygon,                                                   *)
(*   - dispatchEvent (the hand-over of an event to the adapters).          *)
(* The server is one Node.js process: code between two awaits runs         *)
(* atomically, so every action is "the resolution of one await plus the    *)
(* synchronous code that follows it".                                      *)
(***************************************************************************)
EXTENDS Integers, Sequences, FiniteSets, TLC

(***************************************************************************)
(* Bounds of the model.                                                    *)
(***************************************************************************)
MaxCalls == 2          \* concurrent position-report requests
MaxReports == 2        \* position reports received
MaxEnvSteps == 1       \* environment steps: clock ticks, failing database calls,
                       \* geofence mutations

(***************************************************************************)
(* Program constants.                                                      *)
(***************************************************************************)
CACHE_TTL_MS == 300000
POLYGON_POINTS == 8
TickMs == 300000

MaxCacheTicks == 2     \* steps of the fine clock
CacheTickMs == 150000  \* the fine clock's step: half the cache's lifetime

NULL == "null"
Undefined == "undefined"

Calls == 1..MaxCalls

(***************************************************************************)
(* Inputs: request bodies of the position report.                          *)
(***************************************************************************)

\* the accuracy (metres) the reports of a working receiver carry
Accuracy == 10

\* positions on an integer grid (degrees)
PosOut == [lat |-> 1, lng |-> 20]
PosA == [lat |-> 1, lng |-> 3]
PosAB == [lat |-> 1, lng |-> 7]
Positions == {PosOut, PosA, PosAB}

\* every position for app1/u1, one report each for the same user in another app
\* and for another user
Bodies ==
    [appId : {"app1"}, userId : {"u1"}, pos : Positions, accuracy : {Accuracy}]
    \cup {[appId |-> "app2", userId |-> "u1", pos |-> PosA, accuracy |-> Accuracy],
          [appId |-> "app1", userId |-> "u2", pos |-> PosA, accuracy |-> Accuracy]}

(***************************************************************************)
(* Geofences of the store.  Each id has fixed 8-point coordinates; the     *)
(* table row of an id is absent, enabled or disabled.                      *)
(***************************************************************************)
RegionIds == {"A", "B"}
\* the order in which findMany lists the rows
RegionOrder == <<"A", "B">>
\* the geofences the CRUD requests of the model name
MutableRegions == {"B"}

P(lat, lng) == [lat |-> lat, lng |-> lng]

\* "M" is a row whose stored boundary is one vertex short; it is in no table
\* of the model and is handed to step 3 of the evaluation directly
Coordinates(g) ==
    IF g = "A"
    THEN << P(0,0), P(0,4), P(0,8), P(2,8), P(4,8), P(4,4), P(4,0), P(2,0) >>
    ELSE IF g = "M"
    THEN << P(0,0), P(0,4), P(0,8), P(2,8), P(4,8), P(4,4), P(4,0) >>
    ELSE << P(0,6), P(0,10), P(0,14), P(2,14), P(4,14), P(4,10), P(4,6), P(2,6) >>

VARIABLES
    geofenceTable,      \* prisma.geofence: id -> "absent" | "enabled" | "disabled"
    userGeofenceState,  \* prisma.userGeofenceState: <<appId,userId>> -> row
    geofenceCache,      \* [present, data, timestamp]
    userLocks,          \* Map lockKey -> call holding the evaluation promise (0 = no entry)
    call,               \* per request: position in the handler and its locals
    now,                \* Date.now()
    adminPc,            \* geofence route between its database write and its return
    sinkLog,            \* per <<key, region>>: the last two kinds handed to the adapters
    envSteps,           \* clock ticks, failed database calls, geofence mutations so far
    reports,            \* position reports received so far
    adapters,           \* adapterConfigInstance.adapters, in registration order
    sinkCalls,          \* per <<adapter, key, region, kind>>: the latest handler call
    monitor,            \* the fields of the browser's GeofenceMonitor object
    timers,             \* setInterval handles: how many were created, which are active
    pending,           \* the monitor's pending promises and the calls made to it so far
    wire,               \* the monitor's traffic: the last arrival, report and response
    emitted,            \* enter/exit events handed to the monitor's listeners
    clock,              \* Date.now() in the browser
    geometry            \* a point, a vertex list and the results of isPointInPolygon

serverVars == << geofenceTable, userGeofenceState, geofenceCache, userLocks, call, now,
                 adminPc, sinkLog, envSteps, reports, adapters, sinkCalls >>

clientVars == << monitor, timers, pending, wire, emitted, clock >>

vars == << serverVars, clientVars, geometry >>

(***************************************************************************)
(* isPointInPolygon: ray casting over exactly 8 points.                    *)
(* The comparison  lon < (xj-xi)*(lat-yi)/(yj-yi) + xi  is evaluated by    *)
(* cross-multiplication, exact on the integer grid.                        *)
(***************************************************************************)
Intersect(lat, lon, vi, vj) ==
    LET xi == vi.lng  yi == vi.lat  xj == vj.lng  yj == vj.lat
        num == (xj - xi) * (lat - yi)
        den == yj - yi
    IN  /\ (yi > lat) # (yj > lat)
        /\ IF den > 0 THEN (lon - xi) * den < num
                      ELSE (lon - xi) * den > num

\* variant: the edge from the last vertex back to the first is not cast
RECURSIVE RayCastOpen(_, _, _, _, _, _)
RayCastOpen(lat, lon, coordinates, i, j, inside) ==
    IF i > POLYGON_POINTS THEN inside
    ELSE RayCastOpen(lat, lon, coordinates, i + 1, i,
                     IF i > 1 /\ Intersect(lat, lon, coordinates[i], coordinates[j])
                     THEN ~inside ELSE inside)

RECURSIVE RayCast(_, _, _, _, _, _)
RayCast(lat, lon, coordinates, i, j, inside) ==
    IF i > POLYGON_POINTS THEN inside
    ELSE RayCast(lat, lon, coordinates, i + 1, i,
                 IF Intersect(lat, lon, coordinates[i], coordinates[j])
                 THEN ~inside ELSE inside)

\* variant: a list of the wrong length counts as containing the point
isPointInPolygonAnyLength(lat, lon, coordinates) ==
    IF Len(coordinates) # POLYGON_POINTS THEN TRUE
    ELSE RayCast(lat, lon, coordinates, 1, POLYGON_POINTS, FALSE)

isPointInPolygon(lat, lon, coordinates) ==
    IF Len(coordinates) # POLYGON_POINTS THEN FALSE
    ELSE RayCast(lat, lon, coordinates, 1, POLYGON_POINTS, FALSE)

(***************************************************************************)
(* The kernel on its own: a point of the grid, a vertex list, and the      *)
(* results of isPointInPolygon for the list as given (`base`) and for the  *)
(* list started k vertices later (`inside`).                               *)
(***************************************************************************)
MaxRotation == 8       \* rotations applied to one vertex list

\* an L-shaped region next to the two rectangles
LShape == << P(0,0), P(0,8), P(2,8), P(2,4), P(4,4), P(4,2), P(4,0), P(2,0) >>

\* vertex lists of the wrong length: one vertex short, one too many, none
Malformed ==
    { SubSeq(Coordinates("A"), 1, POLYGON_POINTS - 1),
      Append(Coordinates("A"), P(1, 0)),
      << >> }

Polygons == {Coordinates("A"), Coordinates("B"), LShape}

GridPoints == [lat : -1..5, lng : -1..15]

\* the list started k vertices later
rotate(vertices, k) ==
    [i \in 1..Len(vertices) |-> vertices[((i - 1 + k) % Len(vertices)) + 1]]

NoGeometry ==
    [point |-> P(0, 0), vertices |-> << >>, k |-> 0, step |-> "idle",
     base |-> FALSE, inside |-> FALSE, current |-> {}]

\* isPointInPolygon(point, vertices)
ApplyKernel ==
    /\ geometry.step = "input"
    /\ LET r == isPointInPolygon(geometry.point.lat, geometry.point.lng, geometry.vertices)
       IN  geometry' = [geometry EXCEPT !.step = "applied", !.base = r, !.inside = r]
    /\ UNCHANGED << serverVars, clientVars >>

\* isPointInPolygon(point, rotate(vertices, k + 1))
ApplyRotated ==
    /\ geometry.step = "applied"
    /\ Len(geometry.vertices) > 0
    /\ geometry.k < MaxRotation
    /\ geometry' = [geometry EXCEPT
           !.k = @ + 1,
           !.inside = isPointInPolygon(geometry.point.lat, geometry.point.lng,
                                       rotate(geometry.vertices, geometry.k + 1))]
    /\ UNCHANGED << serverVars, clientVars >>

(***************************************************************************)
(* Position report route: schema and parse.                                *)
(***************************************************************************)
\* variant: a schema that does not constrain the accuracy
ValidReportAnyAccuracy(b) ==
    /\ Len(b.userId) >= 1
    /\ b.pos.lat >= -90 /\ b.pos.lat <= 90
    /\ b.pos.lng >= -180 /\ b.pos.lng <= 180

ValidReport(b) ==
    /\ Len(b.userId) >= 1
    /\ b.pos.lat >= -90 /\ b.pos.lat <= 90
    /\ b.pos.lng >= -180 /\ b.pos.lng <= 180
    /\ b.accuracy >= 0

\* z.object keeps only the keys of the schema; the schema has no appId, so the
\* evaluator reads input.appId as undefined.
ParsePositionReport(b) ==
    [appId |-> Undefined, userId |-> b.userId, pos |-> b.pos]

Inputs == {ParsePositionReport(b) : b \in Bodies}

\* `${appId}:${userId}`
LockKey(appId, userId) == appId \o ":" \o userId

\* where: { appId_userId: { appId, userId } }: the row the store addresses with
\* the pair it is given
StateKey(input) == << input.appId, input.userId >>

LockKeys == {LockKey(i.appId, i.userId) : i \in Inputs}
StateKeys == {StateKey(i) : i \in Inputs}

(***************************************************************************)
(* Per-request record: pc is the await the handler is suspended at.        *)
(***************************************************************************)
NoBody ==
    [appId |-> NULL, userId |-> NULL, pos |-> [lat |-> 0, lng |-> 0], accuracy |-> 0]

IdleCall ==
    [pc |-> "idle", body |-> NoBody, geofences |-> {}, fetchNow |-> 0,
     current |-> {}, events |-> << >>, result |-> "none", returned |-> << >>,
     waitOn |-> 0, awaited |-> << >>, failedAt |-> "none"]

Input(c) == ParsePositionReport(call[c].body)

\* pcs at which performEvaluation is suspended
BodyPcs == {"fetching", "fetched", "findState", "creating", "updating"}

\* a settled promise's continuations are still to run
Settling == \E c \in Calls : call[c].pc = "done"

SeqOf(S) == SelectSeq(RegionOrder, LAMBDA r : r \in S)

Min(S) == CHOOSE x \in S : \A y \in S : x <= y

(***************************************************************************)
(* getCachedGeofences / invalidateGeofenceCache                            *)
(***************************************************************************)
\* geofenceCache = null
NoCache == [present |-> FALSE, data |-> {}, timestamp |-> 0]

\* findUnique found no row
NoRow == [exists |-> FALSE, activeGeofenceIds |-> {}, lastPos |-> [lat |-> 0, lng |-> 0]]

\* variant: an entry whose age equals the lifetime still counts as valid
CacheValidInclusive(t) ==
    /\ geofenceCache.present
    /\ t - geofenceCache.timestamp <= CACHE_TTL_MS

CacheValid(t) ==
    /\ geofenceCache.present
    /\ t - geofenceCache.timestamp < CACHE_TTL_MS

\* prisma.geofence.findMany({ where: { enabled: true } })
EnabledGeofences == {g \in RegionIds : geofenceTable[g] = "enabled"}

invalidateGeofenceCache == geofenceCache' = NoCache

(***************************************************************************)
(* dispatchEvent: every event of the list is handed to the adapters.       *)
(***************************************************************************)
RECURSIVE dispatchEvent(_, _, _)
dispatchEvent(log, key, evs) ==
    IF evs = << >> THEN log
    ELSE dispatchEvent(
            [log EXCEPT ![<< key, Head(evs).id >>] =
                            [last |-> Head(evs).type, prev |-> @.last]],
            key, Tail(evs))

(***************************************************************************)
(* Adapters: createAdapterConfig, the built-in adapters and the calls      *)
(* dispatchEvent makes.  A handler declared async turns every failure into *)
(* a rejected promise; a handler that is a plain function can throw before *)
(* it returns a promise.                                                   *)
(***************************************************************************)
EventTypes == {"enter", "exit"}
AdapterNames == {"logger", "webhook", "cdp", "custom"}

\* environment of the process: GEOFENCE_WEBHOOK_URL set, CDP keys set
Environments == [webhook : BOOLEAN, cdp : BOOLEAN]
DefaultEnv == [webhook |-> FALSE, cdp |-> FALSE]

\* variant: a logger that is switched off
LoggerAdapterDisabled == [name |-> "logger", enabled |-> FALSE, handler |-> "async"]

\* class LoggerAdapter: enabled = true
LoggerAdapter == [name |-> "logger", enabled |-> TRUE, handler |-> "async"]

\* class WebhookAdapter: enabled = !!webhookUrl
WebhookAdapter(env) == [name |-> "webhook", enabled |-> env.webhook, handler |-> "async"]

\* class CDPAdapter: enabled = !!(apiKey && passKey)
CDPAdapter(env) == [name |-> "cdp", enabled |-> env.cdp, handler |-> "async"]

\* an adapter written against the EventAdapter interface whose onEnter/onExit
\* is not declared async and throws before it returns its promise
CustomAdapter == [name |-> "custom", enabled |-> TRUE, handler |-> "throws"]

createAdapterConfig(env) ==
    << LoggerAdapter >>
    \o (IF WebhookAdapter(env).enabled THEN << WebhookAdapter(env) >> ELSE << >>)
    \o (IF CDPAdapter(env).enabled THEN << CDPAdapter(env) >> ELSE << >>)

\* adapters.push(adapter) added to createAdapterConfig after its first i pushes
Register(config, adapter, i) ==
    SubSeq(config, 1, i) \o << adapter >> \o SubSeq(config, i + 1, Len(config))

\* the configurations of the model: the built-in ones of every environment,
\* and one with a custom adapter registered between the logger and the webhook
AdapterConfigs ==
    {createAdapterConfig(env) : env \in Environments}
    \cup {Register(createAdapterConfig([webhook |-> TRUE, cdp |-> FALSE]), CustomAdapter, 1)}

\* no call of the handler so far
NoSinkCall == [handler |-> "none", race |-> "none", failed |-> FALSE, n |-> 0]

SinkCallIds == AdapterNames \X StateKeys \X RegionIds \X EventTypes

\* variant: no filter
AllAdapters(config) == config

\* config.adapters.filter(adapter => adapter.enabled)
EnabledAdapters(config) == SelectSeq(config, LAMBDA a : a.enabled)

\* some enabled handler throws inside the map callback
DispatchThrows(config) ==
    \E i \in 1..Len(config) : config[i].enabled /\ config[i].handler = "throws"

\* the adapters whose handler one dispatchEvent calls: .map walks the
\* enabled adapters in order and stops at the first handler that throws
Invoked(config) ==
    LET enabled == EnabledAdapters(config)
        thrower == {i \in 1..Len(enabled) : enabled[i].handler = "throws"}
    IN  IF thrower = {} THEN enabled ELSE SubSeq(enabled, 1, Min(thrower))

\* handler.call(adapter, event) raced against the 5 s timer, for every event
\* of the list
InvokeHandlers(calls, config, key, evs) ==
    LET invoked == Invoked(config)
        hit(x) == {i \in 1..Len(invoked) :
                      /\ invoked[i].name = x[1]
                      /\ x[2] = key
                      /\ \E j \in 1..Len(evs) : evs[j].id = x[3] /\ evs[j].type = x[4]}
    IN  [x \in DOMAIN calls |->
            IF hit(x) = {} THEN calls[x]
            ELSE IF invoked[Min(hit(x))].handler = "throws"
                 THEN [handler |-> "threw", race |-> "none", failed |-> TRUE,
                       n |-> calls[x].n + 1]
                 ELSE [handler |-> "running", race |-> "pending", failed |-> FALSE,
                       n |-> calls[x].n + 1]]

\* what the handler's promise does when the adapter's external write fails:
\* logEvent logs and rethrows; sendWebhook and trackEvent log and return
WriteFailureOutcome(name) == IF name = "logger" THEN "rejected" ELSE "resolved"

(***************************************************************************)
(* performEvaluation, steps 3 and 4: membership and transitions.  The exit *)
(* loop looks the geofence up in the fetched list and dereferences it; an  *)
(* id that is not in the list makes the loop throw at that id.             *)
(***************************************************************************)
\* variant: every fetched geofence counts as containing the position
CurrentGeofenceIdsAll(pos, geofences) == geofences

CurrentGeofenceIds(pos, geofences) ==
    {g \in geofences : isPointInPolygon(pos.lat, pos.lng, Coordinates(g))}

\* variant: an enter event for every current geofence, active before or not
EnterEventsOfCurrent(previous, current) ==
    LET ids == SeqOf(current)
    IN  [i \in 1..Len(ids) |-> [type |-> "enter", id |-> ids[i]]]

EnterEvents(previous, current) ==
    LET ids == SeqOf(current \ previous)
    IN  [i \in 1..Len(ids) |-> [type |-> "enter", id |-> ids[i]]]

ExitEvents(previous, current, geofences) ==
    LET ids == SeqOf(previous \ current)
        missing == {i \in 1..Len(ids) : ids[i] \notin geofences}
        stop == IF missing = {} THEN Len(ids) + 1 ELSE Min(missing)
    IN  [events |-> [i \in 1..(stop - 1) |-> [type |-> "exit", id |-> ids[i]]],
         throws |-> missing # {}]

Transitions(previous, pos, geofences) ==
    LET current == CurrentGeofenceIds(pos, geofences)
        exits == ExitEvents(previous, current, geofences)
    IN  [current |-> current,
         events |-> EnterEvents(previous, current) \o exits.events,
         throws |-> exits.throws]

(***************************************************************************)
(* evaluatePosition: lock table, waiters and the finally block.            *)
(***************************************************************************)
\* variant: the lock table is not consulted
LockNeverSeen(lockKey) == FALSE

LockHeld(lockKey) == userLocks[lockKey] # 0

\* variant: the entry is deleted after the await instead of in a finally block
ReleaseLockOnSuccess(locks, lockKey, outcome) ==
    IF outcome = "ok" THEN [locks EXCEPT ![lockKey] = 0] ELSE locks

\* variant: the entry is kept while a handler call of dispatchEvent is unsettled
ReleaseLockAfterSinks(locks, lockKey, outcome) ==
    IF \E x \in SinkCallIds : sinkCalls[x].race = "pending"
    THEN locks ELSE [locks EXCEPT ![lockKey] = 0]

\* finally { userLocks.delete(lockKey) }
ReleaseLock(locks, lockKey, outcome) == [locks EXCEPT ![lockKey] = 0]

\* lines 105-106: await existingLock; return { events: [] }
WaiterReturn(outcome, inflight) ==
    IF outcome = "ok" THEN [result |-> "ok", returned |-> << >>]
    ELSE [result |-> "error", returned |-> << >>]

\* The evaluation promise of call c settles (resolved, or rejected by a failed
\* database call or by the TypeError of the exit loop) with the locals as they
\* are; the continuations of the holder (try/finally) and of every waiter run
\* before any other handler.
Settle(c, outcome, current, evs, where) ==
    LET key == LockKey(Input(c).appId, Input(c).userId)
    IN  /\ call' = [d \in Calls |->
                IF d = c
                THEN [IdleCall EXCEPT !.pc = "done", !.body = call[c].body,
                                      !.current = current,
                                      !.events = evs, !.result = outcome,
                                      !.returned = IF outcome = "ok" THEN evs ELSE << >>,
                                      !.failedAt = where]
                ELSE IF call[d].pc = "waiting" /\ call[d].waitOn = c
                THEN [IdleCall EXCEPT !.pc = "done", !.body = call[d].body,
                                      !.waitOn = c,
                                      !.result = WaiterReturn(outcome, evs).result,
                                      !.returned = WaiterReturn(outcome, evs).returned,
                                      !.awaited = IF outcome = "ok" THEN evs ELSE << >>,
                                      !.failedAt = IF outcome = "ok" THEN "none" ELSE "await"]
                ELSE call[d]]
        /\ userLocks' = ReleaseLock(userLocks, key, outcome)

\* steps 3-4 for call c with the stored active set `previous`, then the
\* update is issued (step 5) unless the exit loop threw
\* dispatchEvent is called before events.push: a handler that throws inside
\* dispatchEvent ends the evaluation at the first event
EvaluateAndDispatch(c, previous) ==
    LET t == Transitions(previous, Input(c).pos, call[c].geofences)
        aborts == DispatchThrows(adapters) /\ t.events # << >>
        dispatched == IF aborts THEN << Head(t.events) >> ELSE t.events
    IN  /\ sinkLog' = dispatchEvent(sinkLog, StateKey(Input(c)), dispatched)
        /\ sinkCalls' = InvokeHandlers(sinkCalls, adapters, StateKey(Input(c)), dispatched)
        /\ IF aborts
           THEN Settle(c, "error", t.current, << >>, "dispatch")
           ELSE IF t.throws
           THEN Settle(c, "error", t.current, t.events, "transition")
           ELSE /\ call' = [call EXCEPT ![c] = [@ EXCEPT !.pc = "updating",
                                                         !.current = t.current,
                                                         !.events = t.events]]
                /\ UNCHANGED userLocks

(***************************************************************************)
(* POST /api/events/position -> evaluatePosition, up to its first await.   *)
(***************************************************************************)
POST(c, b) ==
    /\ ~Settling
    /\ call[c].pc = "idle"
    /\ \A d \in 1..(c - 1) : call[d].pc # "idle"
    /\ ValidReport(b)
    /\ LET input == ParsePositionReport(b)
           lockKey == LockKey(input.appId, input.userId)
       IN  IF LockHeld(lockKey)
           THEN /\ call' = [call EXCEPT ![c] = [IdleCall EXCEPT !.pc = "waiting",
                                                       !.body = b,
                                                       !.waitOn = userLocks[lockKey]]]
                /\ UNCHANGED userLocks
           ELSE /\ userLocks' = [userLocks EXCEPT ![lockKey] = c]
                /\ IF CacheValid(now)
                   THEN call' = [call EXCEPT ![c] = [IdleCall EXCEPT !.pc = "findState",
                                                            !.body = b,
                                                            !.geofences = geofenceCache.data]]
                   ELSE call' = [call EXCEPT ![c] = [IdleCall EXCEPT !.pc = "fetching",
                                                            !.body = b,
                                                            !.fetchNow = now]]
    /\ reports < MaxReports
    /\ reports' = reports + 1
    /\ UNCHANGED << geometry, clientVars, adapters, geofenceTable, userGeofenceState, geofenceCache, now, adminPc,
                    sinkLog, sinkCalls, envSteps >>

\* the store answers findMany: the rows are read
FetchRead(c) ==
    /\ ~Settling
    /\ call[c].pc = "fetching"
    /\ call' = [call EXCEPT ![c] = [@ EXCEPT !.pc = "fetched",
                                            !.geofences = EnabledGeofences]]
    /\ UNCHANGED << geometry, clientVars, adapters, geofenceTable, userGeofenceState, geofenceCache, userLocks, now,
                    adminPc, sinkLog, sinkCalls, envSteps, reports >>

\* findMany resolves: the cache is written, findUnique is issued
FetchDone(c) ==
    /\ ~Settling
    /\ call[c].pc = "fetched"
    /\ geofenceCache' = [present |-> TRUE, data |-> call[c].geofences,
                        timestamp |-> call[c].fetchNow]
    /\ call' = [call EXCEPT ![c] = [@ EXCEPT !.pc = "findState", !.fetchNow = 0]]
    /\ UNCHANGED << geometry, clientVars, adapters, geofenceTable, userGeofenceState, userLocks, now, adminPc,
                    sinkLog, sinkCalls, envSteps, reports >>

\* variant: a rejected findMany is caught and answered with an empty result
FetchFailSwallowed(c) ==
    /\ ~Settling
    /\ call[c].pc \in {"fetching", "fetched"}
    /\ envSteps < MaxEnvSteps
    /\ envSteps' = envSteps + 1
    /\ Settle(c, "ok", {}, << >>, "fetch")
    /\ UNCHANGED << geometry, clientVars, adapters, geofenceTable, userGeofenceState, geofenceCache, now, adminPc,
                    sinkLog, sinkCalls, reports >>

\* findMany rejects
FetchFail(c) ==
    /\ ~Settling
    /\ call[c].pc \in {"fetching", "fetched"}
    /\ envSteps < MaxEnvSteps
    /\ envSteps' = envSteps + 1
    /\ Settle(c, "error", {}, << >>, "fetch")
    /\ UNCHANGED << geometry, clientVars, adapters, geofenceTable, userGeofenceState, geofenceCache, now, adminPc,
                    sinkLog, sinkCalls, reports >>

\* findUnique resolves: with a row, steps 3-5; without, create is issued
FindStateDone(c) ==
    /\ ~Settling
    /\ call[c].pc = "findState"
    /\ LET row == userGeofenceState[StateKey(Input(c))]
       IN  IF row.exists
           THEN EvaluateAndDispatch(c, row.activeGeofenceIds)
           ELSE /\ call' = [call EXCEPT ![c] = [@ EXCEPT !.pc = "creating"]]
                /\ UNCHANGED << userLocks, sinkLog, sinkCalls >>
    /\ UNCHANGED << geometry, clientVars, adapters, geofenceTable, userGeofenceState, geofenceCache, now, adminPc,
                    envSteps, reports >>

FindStateFail(c) ==
    /\ ~Settling
    /\ call[c].pc = "findState"
    /\ envSteps < MaxEnvSteps
    /\ envSteps' = envSteps + 1
    /\ Settle(c, "error", {}, << >>, "find")
    /\ UNCHANGED << geometry, clientVars, adapters, geofenceTable, userGeofenceState, geofenceCache, now, adminPc,
                    sinkLog, sinkCalls, reports >>

\* create resolves: the row exists with no active geofence, then steps 3-5
CreateDone(c) ==
    /\ ~Settling
    /\ call[c].pc = "creating"
    /\ userGeofenceState' = [userGeofenceState EXCEPT ![StateKey(Input(c))] =
            [exists |-> TRUE, activeGeofenceIds |-> {}, lastPos |-> Input(c).pos]]
    /\ EvaluateAndDispatch(c, {})
    /\ UNCHANGED << geometry, clientVars, adapters, geofenceTable, geofenceCache, now, adminPc, envSteps, reports >>

CreateFail(c) ==
    /\ ~Settling
    /\ call[c].pc = "creating"
    /\ envSteps < MaxEnvSteps
    /\ envSteps' = envSteps + 1
    /\ Settle(c, "error", {}, << >>, "create")
    /\ UNCHANGED << geometry, clientVars, adapters, geofenceTable, userGeofenceState, geofenceCache, now, adminPc,
                    sinkLog, sinkCalls, reports >>

\* update resolves: the row is written and the evaluation promise resolves
UpdateDone(c) ==
    /\ ~Settling
    /\ call[c].pc = "updating"
    /\ userGeofenceState' = [userGeofenceState EXCEPT ![StateKey(Input(c))] =
            [exists |-> TRUE, activeGeofenceIds |-> call[c].current,
             lastPos |-> Input(c).pos]]
    /\ Settle(c, "ok", call[c].current, call[c].events, "none")
    /\ UNCHANGED << geometry, clientVars, adapters, geofenceTable, geofenceCache, now, adminPc, sinkLog, sinkCalls, envSteps, reports >>

UpdateFail(c) ==
    /\ ~Settling
    /\ call[c].pc = "updating"
    /\ envSteps < MaxEnvSteps
    /\ envSteps' = envSteps + 1
    /\ Settle(c, "error", call[c].current, call[c].events, "update")
    /\ UNCHANGED << geometry, clientVars, adapters, geofenceTable, userGeofenceState, geofenceCache, now, adminPc,
                    sinkLog, sinkCalls, reports >>

\* The continuations of a settled promise run to completion before any other
\* handler: every settled request answers (200 with the events, or 500).
Respond ==
    /\ \E c \in Calls : call[c].pc = "done"
    /\ call' = [c \in Calls |-> IF call[c].pc = "done" THEN IdleCall ELSE call[c]]
    /\ UNCHANGED << geometry, clientVars, adapters, geofenceTable, userGeofenceState, geofenceCache, userLocks, now,
                    adminPc, sinkLog, sinkCalls, envSteps, reports >>

(***************************************************************************)
(* Geofence CRUD routes.                                                   *)
(***************************************************************************)
\* POST /api/geofences: the row is created; the handler returns
CreateGeofence(g, enabled) ==
    /\ ~Settling
    /\ adminPc = "idle"
    /\ envSteps < MaxEnvSteps
    /\ geofenceTable[g] = "absent"
    /\ geofenceTable' = [geofenceTable EXCEPT ![g] = enabled]
    /\ envSteps' = envSteps + 1
    /\ UNCHANGED << geometry, clientVars, adapters, userGeofenceState, geofenceCache, userLocks, call, now, adminPc,
                    sinkLog, sinkCalls, reports >>

\* PATCH /api/geofences/[id]: prisma.geofence.update
PatchWrite(g, enabled) ==
    /\ ~Settling
    /\ adminPc = "idle"
    /\ envSteps < MaxEnvSteps
    /\ geofenceTable[g] # "absent"
    /\ geofenceTable' = [geofenceTable EXCEPT ![g] = enabled]
    /\ adminPc' = "written"
    /\ envSteps' = envSteps + 1
    /\ UNCHANGED << geometry, clientVars, adapters, userGeofenceState, geofenceCache, userLocks, call, now, sinkLog, sinkCalls, reports >>

\* DELETE /api/geofences/[id]: prisma.geofence.delete
DeleteWrite(g) ==
    /\ ~Settling
    /\ adminPc = "idle"
    /\ envSteps < MaxEnvSteps
    /\ geofenceTable[g] # "absent"
    /\ geofenceTable' = [geofenceTable EXCEPT ![g] = "absent"]
    /\ adminPc' = "written"
    /\ envSteps' = envSteps + 1
    /\ UNCHANGED << geometry, clientVars, adapters, userGeofenceState, geofenceCache, userLocks, call, now, sinkLog, sinkCalls, reports >>

\* PATCH / DELETE after their write: invalidateGeofenceCache(), then return
MutationReturn ==
    /\ ~Settling
    /\ adminPc = "written"
    /\ invalidateGeofenceCache
    /\ adminPc' = "idle"
    /\ UNCHANGED << geometry, clientVars, adapters, geofenceTable, userGeofenceState, userLocks, call, now, sinkLog, sinkCalls,
                    envSteps, reports >>

Tick ==
    /\ ~Settling
    /\ envSteps < MaxEnvSteps
    /\ envSteps' = envSteps + 1
    /\ now' = now + TickMs
    /\ UNCHANGED << geometry, clientVars, adapters, geofenceTable, userGeofenceState, geofenceCache, userLocks, call,
                    adminPc, sinkLog, sinkCalls, reports >>

\* the handler's external write completes: the promise of an async handler
\* resolves; the race is settled by it unless the timer has settled it
SinkWriteDone(x) ==
    /\ ~Settling
    /\ sinkCalls[x].handler = "running"
    /\ sinkCalls' = [sinkCalls EXCEPT ![x] =
            [@ EXCEPT !.handler = "resolved",
                      !.race = IF @ = "pending" THEN "handler" ELSE @]]
    /\ UNCHANGED << geometry, clientVars, adapters, geofenceTable, userGeofenceState, geofenceCache, userLocks,
                    call, now, adminPc, sinkLog, envSteps, reports >>

\* the handler's external write fails (database error, network error, non-2xx)
SinkWriteFail(x) ==
    /\ ~Settling
    /\ sinkCalls[x].handler = "running"
    /\ envSteps < MaxEnvSteps
    /\ envSteps' = envSteps + 1
    /\ sinkCalls' = [sinkCalls EXCEPT ![x] =
            [@ EXCEPT !.handler = WriteFailureOutcome(x[1]),
                      !.failed = TRUE,
                      !.race = IF @ = "pending" THEN "handler" ELSE @]]
    /\ UNCHANGED << geometry, clientVars, adapters, geofenceTable, userGeofenceState, geofenceCache, userLocks,
                    call, now, adminPc, sinkLog, reports >>

\* the 5 s timer of the race fires while the handler has not settled: the
\* race rejects with "Adapter timeout" and is logged; the handler runs on
SinkTimeout(x) ==
    /\ ~Settling
    /\ sinkCalls[x].race = "pending"
    /\ envSteps < MaxEnvSteps
    /\ envSteps' = envSteps + 1
    /\ sinkCalls' = [sinkCalls EXCEPT ![x] = [@ EXCEPT !.race = "timeout"]]
    /\ UNCHANGED << geometry, clientVars, adapters, geofenceTable, userGeofenceState, geofenceCache, userLocks,
                    call, now, adminPc, sinkLog, reports >>

(***************************************************************************)
(* The browser SDK: GeofenceMonitor in test mode (options.testMode), with  *)
(* the default options otherwise.  Positions lie on one meridian, their    *)
(* latitude in millionths of a degree: there the haversine distance is the *)
(* earth's radius times the difference of the latitudes in radians.        *)
(***************************************************************************)
MaxClientCalls == 3      \* calls the application makes to the monitor
MaxClientTicks == 3      \* steps of the browser's clock
ClientTickMs == 5000     \* the browser clock's step
MaxResponseEvents == 2   \* events in one response of the server

SIGNIFICANT_MOVEMENT_THRESHOLD == 50
MIN_REPORT_INTERVAL == 5000
EVENT_COOLDOWN == 15000
\* EARTH_RADIUS_METERS * pi / 180, to the metre
METERS_PER_DEGREE == 111195
\* Date.now() when the page is loaded
ClientEpoch == 1000000

NoPosition == [lat |-> -1, lng |-> -1]
ClientPositions == {P(0, 0), P(300, 0), P(600, 0)}

\* circular regions as the public route serves them: centre and radius (metres)
Center(g) == IF g = "A" THEN P(0, 0) ELSE P(600, 0)
Radius(g) == 40
\* the lists the public route can answer with
GeofenceLists == {{"A", "B"}, {"A"}}

Abs(x) == IF x < 0 THEN -x ELSE x

\* whole metres between two positions of the same meridian
calculateDistance(p, q) == (Abs(p.lat - q.lat) * METERS_PER_DEGREE) \div 1000000

isPointInGeofence(p, g) == calculateDistance(p, Center(g)) <= Radius(g)

\* the event sequences a response can carry
ResponseEvents ==
    UNION {[1..n -> [type : EventTypes, id : RegionIds]] : n \in 0..MaxResponseEvents}

NewMonitor(serverEvaluation) ==
    [isRunning |-> FALSE, geofences |-> {}, currentGeofences |-> {},
     lastPosition |-> NoPosition, pollingInterval |-> 0, testPosition |-> NoPosition,
     lastReportedPosition |-> NoPosition,
     serverEvaluationEnabled |-> serverEvaluation,
     serverCallInProgress |-> FALSE, lastServerReportTime |-> 0,
     positionProcessingInProgress |-> FALSE]

NoRun == [active |-> FALSE, position |-> NoPosition]

\* the state of the page after `new GeofenceMonitor(options)`
Constructed(serverEvaluation) ==
    /\ monitor = NewMonitor(serverEvaluation)
    /\ timers = [created |-> 0, active |-> {}]
    /\ pending = [starts |-> 0, refresh |-> "idle", run |-> NoRun, calls |-> 0]
    /\ wire = [arrival |-> "none", lastSentAt |-> 0, eventsAt |-> 0,
               lastOk |-> NoPosition, failed |-> FALSE, received |-> 0,
               applied |-> FALSE, response |-> << >>]
    /\ emitted = [last |-> [g \in RegionIds |-> "none"], batch |-> << >>]
    /\ clock = ClientEpoch

\* variant: the processing flag is never seen set
NeverInProgress(m) == FALSE

\* line 367
InProgress(m) == m.positionProcessingInProgress

\* variant: every position passes the gate
AlwaysReport(m, p) == TRUE

shouldReportPosition(m, p) ==
    \/ m.lastReportedPosition = NoPosition
    \/ calculateDistance(m.lastReportedPosition, p) >= SIGNIFICANT_MOVEMENT_THRESHOLD

\* variant: no wait after a response with events
NoCooldown(t, evs) == t

\* lines 492 and 522-526: the time the next report is measured from
NextReportBase(t, evs) ==
    IF Len(evs) > 0 THEN t + (EVENT_COOLDOWN - MIN_REPORT_INTERVAL) ELSE t

\* lines 438-467 of handleServerEvaluation: the guards before the report
handleServerEvaluation(m, p, t) ==
    IF m.serverCallInProgress
    THEN [monitor |-> m, send |-> FALSE]
    ELSE IF m.lastServerReportTime > 0 /\ t - m.lastServerReportTime < MIN_REPORT_INTERVAL
    THEN [monitor |-> m, send |-> FALSE]
    ELSE IF ~shouldReportPosition(m, p)
    THEN [monitor |-> m, send |-> FALSE]
    ELSE [monitor |-> [m EXCEPT !.serverCallInProgress = TRUE], send |-> TRUE]

\* variant: exits are not reported
LocalEventsEntersOnly(current, inside, geofences) ==
    LET ids == SeqOf(inside \ current)
    IN  [i \in 1..Len(ids) |-> [type |-> "enter", id |-> ids[i]]]

\* the loop over this.geofences: one event for each listed region whose
\* membership differs from the tracked one, in list order
LocalEvents(current, inside, geofences) ==
    LET ids == SeqOf({g \in geofences : (g \in inside) # (g \in current)})
    IN  [i \in 1..Len(ids) |->
            [type |-> IF ids[i] \in inside THEN "enter" ELSE "exit", id |-> ids[i]]]

processPositionClientSide(m, p) ==
    LET inside == {g \in m.geofences : isPointInGeofence(p, g)}
    IN  [monitor |-> [m EXCEPT !.currentGeofences = inside],
         batch |-> LocalEvents(m.currentGeofences, inside, m.geofences)]

\* the run up to its first pending promise: a run that sends nothing ends
\* before any other callback of the page
processPosition(m, p, t) ==
    IF InProgress(m)
    THEN [monitor |-> m, send |-> FALSE, batch |-> << >>]
    ELSE IF m.serverEvaluationEnabled
    THEN LET h == handleServerEvaluation(
                      [m EXCEPT !.positionProcessingInProgress = TRUE], p, t)
         IN  [monitor |-> [h.monitor EXCEPT !.positionProcessingInProgress = h.send],
              send |-> h.send, batch |-> << >>]
    ELSE LET l == processPositionClientSide(m, p)
         IN  [monitor |-> l.monitor, send |-> FALSE, batch |-> l.batch]

\* the listeners' view after a batch of events
Emit(e, batch) ==
    [last |-> [g \in RegionIds |->
                  LET at == {i \in 1..Len(batch) : batch[i].id = g}
                  IN  IF at = {} THEN e.last[g]
                      ELSE batch[CHOOSE i \in at : \A j \in at : j <= i].type],
     batch |-> batch]

\* variant: every event of the response is passed to the listeners
ReconcileNone(current, evs, n) ==
    [current |-> current, batch |-> SubSeq(evs, 1, n)]

\* lines 494-520: the first n events of the response against the tracked set
RECURSIVE Reconcile(_, _, _)
Reconcile(current, evs, n) ==
    IF n = 0 THEN [current |-> current, batch |-> << >>]
    ELSE LET r == Reconcile(current, evs, n - 1)
             e == evs[n]
         IN  IF e.type = "enter" /\ e.id \notin r.current
             THEN [current |-> r.current \cup {e.id}, batch |-> Append(r.batch, e)]
             ELSE IF e.type = "exit" /\ e.id \in r.current
             THEN [current |-> r.current \ {e.id}, batch |-> Append(r.batch, e)]
             ELSE r

\* a position reaches processPosition: m is the monitor as the caller left
\* it, f the pending promises as the caller left them
Deliver(m, f, p, source) ==
    LET r == processPosition(m, p, clock)
    IN  /\ monitor' = r.monitor
        /\ pending' = IF r.send THEN [f EXCEPT !.run = [active |-> TRUE, position |-> p]]
                       ELSE f
        /\ wire' = [wire EXCEPT !.arrival = source, !.received = 0,
                                !.lastSentAt = IF r.send THEN clock ELSE @,
                                !.failed = IF r.send THEN FALSE ELSE @]
        /\ emitted' = Emit(emitted, r.batch)

\* a step of the page that delivers no position and emits no event
Quiet(m, f) ==
    /\ monitor' = m
    /\ pending' = f
    /\ wire' = [wire EXCEPT !.arrival = "none", !.received = 0]
    /\ emitted' = [emitted EXCEPT !.batch = << >>]

Called == [pending EXCEPT !.calls = @ + 1]

\* start(), up to `await this.fetchGeofences()`
Start ==
    /\ pending.calls < MaxClientCalls
    /\ IF monitor.isRunning
       THEN Quiet(monitor, Called)
       ELSE Quiet(monitor, [Called EXCEPT !.starts = @ + 1])
    /\ UNCHANGED << geometry, serverVars, timers, clock >>

\* the region list arrives for a start(): lines 101-118
StartFetched(list) ==
    /\ pending.starts > 0
    /\ LET h == timers.created + 1
       IN  /\ timers' = [created |-> h, active |-> timers.active \cup {h}]
           /\ Quiet([monitor EXCEPT !.geofences = list, !.pollingInterval = h,
                                    !.isRunning = TRUE],
                    [pending EXCEPT !.starts = @ - 1])
    /\ UNCHANGED << geometry, serverVars, clock >>

\* fetchGeofences rethrows: start() rejects
StartFetchFails ==
    /\ pending.starts > 0
    /\ Quiet(monitor, [pending EXCEPT !.starts = @ - 1])
    /\ UNCHANGED << geometry, serverVars, timers, clock >>

\* stop()
Stop ==
    /\ pending.calls < MaxClientCalls
    /\ IF ~monitor.isRunning
       THEN /\ Quiet(monitor, Called)
            /\ UNCHANGED timers
       ELSE /\ timers' = [timers EXCEPT !.active = @ \ {monitor.pollingInterval}]
            /\ Quiet([monitor EXCEPT !.pollingInterval = 0, !.isRunning = FALSE], Called)
    /\ UNCHANGED << geometry, serverVars, clock >>

\* setTestPosition(lat, lng)
SetTestPosition(p) ==
    /\ pending.calls < MaxClientCalls
    /\ LET m == [monitor EXCEPT !.testPosition = p, !.lastPosition = p]
       IN  IF monitor.isRunning
           THEN Deliver(m, Called, p, "test")
           ELSE Quiet(m, Called)
    /\ UNCHANGED << geometry, serverVars, timers, clock >>

\* the interval h fires: checkPosition with the test position as the fix
PollTick(h) ==
    /\ h \in timers.active
    /\ monitor.isRunning
    /\ monitor.testPosition # NoPosition
    /\ Deliver([monitor EXCEPT !.lastPosition = monitor.testPosition], pending,
               monitor.testPosition, "poll")
    /\ UNCHANGED << geometry, serverVars, timers, clock >>

\* refreshGeofences(), up to `await this.fetchGeofences()`
Refresh ==
    /\ pending.calls < MaxClientCalls
    /\ pending.refresh # "pending"
    /\ Quiet(monitor, [Called EXCEPT !.refresh = "pending"])
    /\ UNCHANGED << geometry, serverVars, timers, clock >>

\* the region list arrives for a refresh: lines 221-226
RefreshFetched(list) ==
    /\ pending.refresh = "pending"
    /\ LET m == [monitor EXCEPT !.geofences = list]
           f == [pending EXCEPT !.refresh = "resolved"]
       IN  IF monitor.lastPosition # NoPosition
           THEN Deliver(m, f, monitor.lastPosition, "refresh")
           ELSE Quiet(m, f)
    /\ UNCHANGED << geometry, serverVars, timers, clock >>

RefreshFetchFails ==
    /\ pending.refresh = "pending"
    /\ Quiet(monitor, [pending EXCEPT !.refresh = "rejected"])
    /\ UNCHANGED << geometry, serverVars, timers, clock >>

\* the server answers the report in flight with evs: lines 484-526, 537-538
\* and the finally of processPosition
ServerResponds(evs) ==
    /\ pending.run.active
    /\ LET r == Reconcile(monitor.currentGeofences, evs, Len(evs))
       IN  /\ monitor' = [monitor EXCEPT
                   !.lastReportedPosition = pending.run.position,
                   !.lastServerReportTime = NextReportBase(clock, evs),
                   !.currentGeofences = r.current,
                   !.serverCallInProgress = FALSE,
                   !.positionProcessingInProgress = FALSE]
           /\ emitted' = Emit(emitted, r.batch)
    /\ pending' = [pending EXCEPT !.run = NoRun]
    /\ wire' = [wire EXCEPT !.arrival = "none", !.received = Len(evs),
                            !.applied = FALSE, !.response = << >>,
                            !.lastOk = pending.run.position,
                            !.eventsAt = IF Len(evs) > 0 THEN clock ELSE @]
    /\ UNCHANGED << geometry, serverVars, timers, clock >>

\* the report in flight fails (network error or a status that is not ok):
\* lines 531-538
ServerFails ==
    /\ pending.run.active
    /\ monitor' = [monitor EXCEPT !.serverCallInProgress = FALSE,
                                  !.positionProcessingInProgress = FALSE]
    /\ pending' = [pending EXCEPT !.run = NoRun]
    /\ wire' = [wire EXCEPT !.arrival = "none", !.received = 0, !.failed = TRUE,
                            !.applied = FALSE, !.response = << >>]
    /\ emitted' = [emitted EXCEPT !.batch = << >>]
    /\ UNCHANGED << geometry, serverVars, timers, clock >>

ClientTick ==
    /\ clock < ClientEpoch + MaxClientTicks * ClientTickMs
    /\ clock' = clock + ClientTickMs
    /\ Quiet(monitor, pending)
    /\ UNCHANGED << geometry, serverVars, timers >>

\* the service after construction, the adapter configuration apart
InitServer ==
    /\ geofenceTable \in {t \in [RegionIds -> {"absent", "enabled"}] : t["A"] = "enabled"}
    /\ userGeofenceState = [k \in StateKeys |-> NoRow]
    /\ geofenceCache = NoCache
    /\ userLocks = [k \in LockKeys |-> 0]
    /\ call = [c \in Calls |-> IdleCall]
    /\ now = 0
    /\ adminPc = "idle"
    /\ sinkLog = [x \in StateKeys \X RegionIds |-> [last |-> "none", prev |-> "none"]]
    /\ envSteps = 0
    /\ reports = 0
    /\ sinkCalls = [x \in SinkCallIds |-> NoSinkCall]

\* the service next to a page whose monitor evaluates locally and is never
\* called
InitState == InitServer /\ Constructed(FALSE) /\ geometry = NoGeometry

\* a process started with neither the webhook nor the CDP variables set
Init == InitState /\ adapters = createAdapterConfig(DefaultEnv)

Next ==
    \/ \E c \in Calls, b \in Bodies : POST(c, b)
    \/ \E c \in Calls : FetchRead(c)
    \/ \E c \in Calls : FetchDone(c)
    \/ \E c \in Calls : FetchFail(c)
    \/ \E c \in Calls : FindStateDone(c)
    \/ \E c \in Calls : FindStateFail(c)
    \/ \E c \in Calls : CreateDone(c)
    \/ \E c \in Calls : CreateFail(c)
    \/ \E c \in Calls : UpdateDone(c)
    \/ \E c \in Calls : UpdateFail(c)
    \/ Respond
    \/ \E g \in MutableRegions, e \in {"enabled", "disabled"} : CreateGeofence(g, e)
    \/ \E g \in MutableRegions, e \in {"enabled", "disabled"} : PatchWrite(g, e)
    \/ \E g \in MutableRegions : DeleteWrite(g)
    \/ MutationReturn
    \/ Tick

Spec == Init /\ [][Next]_vars

(***************************************************************************)
(* Scheduling: a continuation whose promise has settled runs (the event    *)
(* loop), and the state table answers findUnique, create and update.       *)
(* Nothing makes the region store answer findMany: the call has no timeout.*)
(***************************************************************************)
Fairness ==
    /\ WF_vars(\E c \in Calls : FindStateDone(c))
    /\ WF_vars(\E c \in Calls : CreateDone(c))
    /\ WF_vars(\E c \in Calls : UpdateDone(c))
    /\ WF_vars(Respond)
    /\ WF_vars(MutationReturn)

FairSpec == Spec /\ Fairness

(***************************************************************************)
(* The service with a fixed geofence table and database calls that         *)
(* succeed, under a clock that steps by half the cache's lifetime.         *)
(***************************************************************************)
CacheTick ==
    /\ ~Settling
    /\ envSteps < MaxCacheTicks
    /\ envSteps' = envSteps + 1
    /\ now' = now + CacheTickMs
    /\ UNCHANGED << geometry, clientVars, adapters, geofenceTable, userGeofenceState, geofenceCache, userLocks,
                    call, adminPc, sinkLog, sinkCalls, reports >>

NextCache ==
    \/ \E c \in Calls, b \in Bodies : POST(c, b)
    \/ \E c \in Calls : FetchRead(c)
    \/ \E c \in Calls : FetchDone(c)
    \/ \E c \in Calls : FindStateDone(c)
    \/ \E c \in Calls : CreateDone(c)
    \/ \E c \in Calls : UpdateDone(c)
    \/ Respond
    \/ CacheTick

SpecCache == Init /\ [][NextCache]_vars

(***************************************************************************)
(* The service with its adapters at work: every adapter configuration,     *)
(* reports of one user, database calls that succeed, and the handlers'     *)
(* external writes completing, failing or outlasting the timer.            *)
(***************************************************************************)
DispatchBodies ==
    [appId : {"app1"}, userId : {"u1"}, pos : {PosA, PosAB}, accuracy : {Accuracy}]

InitDispatch == InitState /\ adapters \in AdapterConfigs

NextDispatch ==
    \/ \E c \in Calls, b \in DispatchBodies : POST(c, b)
    \/ \E c \in Calls : FetchRead(c)
    \/ \E c \in Calls : FetchDone(c)
    \/ \E c \in Calls : FindStateDone(c)
    \/ \E c \in Calls : CreateDone(c)
    \/ \E c \in Calls : UpdateDone(c)
    \/ Respond
    \/ \E x \in SinkCallIds : SinkWriteDone(x)
    \/ \E x \in SinkCallIds : SinkWriteFail(x)
    \/ \E x \in SinkCallIds : SinkTimeout(x)

SpecDispatch == InitDispatch /\ [][NextDispatch]_vars

(***************************************************************************)
(* Properties.                                                             *)
(***************************************************************************)
KeyOf(c) == StateKey(Input(c))
LockKeyOf(c) == LockKey(Input(c).appId, Input(c).userId)

Waited(c) == call[c].pc = "done" /\ call[c].waitOn # 0

EventSet(evs) == {evs[i] : i \in 1..Len(evs)}

\* C1: a call that found the key's lock held returns, after the in-flight
\* evaluation has completed, the transition events of that evaluation.
C1_WaiterReturnsInflightEvents ==
    \A c \in Calls :
        (Waited(c) /\ call[c].result = "ok") => call[c].returned = call[c].awaited

\* C2: for every tracking key and region, the events handed to the sinks
\* alternate enter, exit, enter, ... starting with enter: the last two kinds
\* handed over are never the same, and the first one is an enter.
C2_SinkEventsAlternate ==
    \A x \in StateKeys \X RegionIds :
        LET h == sinkLog[x]
        IN  /\ h.last # "none" => h.prev # h.last
            /\ (h.last # "none" /\ h.prev = "none") => h.last = "enter"

\* C3: an evaluation with stored active set P and computed active set C
\* produces exactly one enter per region of C \ P, one exit per region of
\* P \ C, and nothing else.
C3_TransitionsAreTheDifference ==
    \A c \in Calls :
        (\/ call[c].pc = "updating"
         \/ (call[c].pc = "done" /\ call[c].failedAt = "transition"))
        => LET prev == userGeofenceState[KeyOf(c)].activeGeofenceIds
               cur == call[c].current
               expected == {[type |-> "enter", id |-> g] : g \in cur \ prev}
                           \cup {[type |-> "exit", id |-> g] : g \in prev \ cur}
           IN  /\ EventSet(call[c].events) = expected
               /\ Len(call[c].events) = Cardinality(expected)

\* C4: a report never waits on the lock of a tracking key of another
\* namespace: the call a report waits on was made for the same
\* (namespace, entityId).
C4_WaitsOnlyOnOwnKey ==
    \A c \in Calls :
        call[c].pc = "waiting"
        => /\ call[call[c].waitOn].body.appId = call[c].body.appId
           /\ call[call[c].waitOn].body.userId = call[c].body.userId

\* C5: at most one evaluation body is executing per key, the executing call
\* holds the key's lock, and every write to a key's state is made by the call
\* holding that key's lock.
C5_OneBodyPerKey ==
    /\ \A c, d \in Calls :
          (c # d /\ call[c].pc \in BodyPcs /\ call[d].pc \in BodyPcs)
          => KeyOf(c) # KeyOf(d)
    /\ \A c \in Calls : call[c].pc \in BodyPcs => userLocks[LockKeyOf(c)] = c

C5_WritesUnderLock ==
    \A k \in StateKeys :
        userGeofenceState'[k] # userGeofenceState[k]
        => \E c \in Calls : /\ call[c].pc \in {"creating", "updating"}
                            /\ KeyOf(c) = k
                            /\ userLocks[LockKeyOf(c)] = c

\* C5: both parts: one evaluation body per key at any time, and state writes
\* only by the call that holds the key's lock.
C5_SerializedPerKey == [](C5_OneBodyPerKey) /\ [][C5_WritesUnderLock]_vars

C5_Witness ==
    \E c, d \in Calls : /\ call[c].pc = "updating"
                        /\ call[d].pc = "waiting"
                        /\ call[d].waitOn = c
                        /\ userGeofenceState[KeyOf(c)].exists

\* C6: while an evaluation is at its region-store fetch nothing is written to
\* its key's state and nothing is handed to the sinks for it; when the fetch
\* fails the lock is released and the call ends with the error.
C6_FetchStep ==
    \A c \in Calls :
        call[c].pc \in {"fetching", "fetched"}
        => /\ userGeofenceState'[KeyOf(c)] = userGeofenceState[KeyOf(c)]
           /\ \A g \in RegionIds : sinkLog'[<< KeyOf(c), g >>] = sinkLog[<< KeyOf(c), g >>]
           /\ call'[c].pc = "done"
              => /\ call'[c].result = "error"
                 /\ call'[c].events = << >>
                 /\ userLocks'[LockKeyOf(c)] = 0

\* C6: every step taken while an evaluation is at its fetch, the failing one
\* included, leaves its key's state and sink history alone; the failure ends
\* the call with the error and the lock released.
C6_FetchFailureAborts == [][C6_FetchStep]_vars

C6_Witness ==
    \E c \in Calls : /\ call[c].pc = "done"
                     /\ call[c].failedAt = "fetch"
                     /\ call[c].result = "error"
                     /\ ~userGeofenceState[KeyOf(c)].exists

\* C7: a call that found the key's lock held never ends in an error.
C7_WaiterNeverFails ==
    \A c \in Calls : Waited(c) => call[c].result # "error"

\* C8: a lock entry exists only while the evaluation that set it is in
\* flight, and a waiting call waits on an evaluation that is in flight.
C8_LockOnlyWhileInFlight ==
    /\ \A k \in LockKeys :
          userLocks[k] # 0 => /\ call[userLocks[k]].pc \in BodyPcs
                              /\ LockKeyOf(userLocks[k]) = k
    /\ \A c \in Calls :
          call[c].pc = "waiting" => call[call[c].waitOn].pc \in BodyPcs

C8_Witness ==
    \E c \in Calls : /\ call[c].pc = "done"
                     /\ call[c].result = "error"
                     /\ call[c].waitOn = 0
                     /\ userLocks[LockKey(Undefined, call[c].body.userId)] = 0

\* C9: at most one region-store fetch is in flight at any time: evaluations
\* that miss the cache together share one fetch.
C9_SingleFetchPerMiss ==
    Cardinality({c \in Calls : call[c].pc \in {"fetching", "fetched"}}) <= 1

\* C10: when a successful geofence mutation (create, update, delete)
\* completes, the region cache is empty.
MutationCompletes ==
    \/ adminPc = "written" /\ adminPc' = "idle"
    \/ adminPc = "idle" /\ adminPc' = "idle" /\ geofenceTable' # geofenceTable

\* C10: every step that completes a geofence mutation leaves the cache empty.
C10_MutationInvalidates == [][MutationCompletes => ~geofenceCache'.present]_vars

\* C11: getCachedGeofences returns the stored list without calling the store
\* whenever an entry exists whose age is below CACHE_TTL_MS; with no entry, or
\* with an entry whose age is CACHE_TTL_MS or more, it calls the store, and
\* the store's answer replaces the entry.
C11_CacheStep ==
    \A c \in Calls :
        /\ (call[c].pc = "idle" /\ call'[c].pc \in {"fetching", "findState"})
           => IF geofenceCache.present /\ now - geofenceCache.timestamp < CACHE_TTL_MS
              THEN /\ call'[c].pc = "findState"
                   /\ call'[c].geofences = geofenceCache.data
                   /\ geofenceCache' = geofenceCache
              ELSE call'[c].pc = "fetching"
        /\ (call[c].pc = "fetching" /\ call'[c].pc = "fetched")
           => call'[c].geofences = EnabledGeofences
        /\ (call[c].pc = "fetched" /\ call'[c].pc = "findState")
           => /\ geofenceCache'.present
              /\ geofenceCache'.data = call[c].geofences
              /\ geofenceCache'.timestamp = call[c].fetchNow

C11_CacheHitBelowTtl == [][C11_CacheStep]_vars

\* a call has found an entry as old as the lifetime and the store has answered
\* its fetch
C11_Witness ==
    \E c \in Calls :
        /\ call[c].pc = "fetched"
        /\ geofenceCache.present
        /\ call[c].fetchNow - geofenceCache.timestamp >= CACHE_TTL_MS

AdapterAt(name) == CHOOSE i \in 1..Len(adapters) : adapters[i].name = name

Registered(name) == \E i \in 1..Len(adapters) : adapters[i].name = name

CallsOf(name, k, e) == sinkCalls[<< name, k, e.id, e.type >>]

\* C12: when one enabled sink's handler rejects, throws or outlasts the timer,
\* every other enabled sink's handler is still invoked for that event: all
\* enabled sinks have been called equally often for every event.
C12_SiblingsStillInvoked ==
    \A k \in StateKeys, g \in RegionIds, ty \in EventTypes :
        \A i, j \in 1..Len(adapters) :
            (adapters[i].enabled /\ adapters[j].enabled)
            => sinkCalls[<< adapters[i].name, k, g, ty >>].n
               = sinkCalls[<< adapters[j].name, k, g, ty >>].n

\* C13: no sink failure (rejected promise, error thrown before a promise is
\* returned, timeout) makes evaluate fail: no call ends with an error raised
\* in dispatch, and a holder that ends with an error has had a database call
\* fail.
C13_SinkFailureNeverFailsEvaluate ==
    \A c \in Calls :
        (call[c].pc = "done" /\ call[c].waitOn = 0 /\ call[c].result = "error")
        => call[c].failedAt \in {"fetch", "find", "create", "update", "transition"}

\* C14: evaluate does not wait for the sinks and the key's lock is never held
\* on behalf of dispatch: while a handler call for a key is unsettled, the
\* key's lock is either free or held by a call that is itself awaiting the
\* database, and a call that is not awaiting the database holds no lock.
C14_NoLockForDispatch ==
    /\ \A x \in SinkCallIds :
          (sinkCalls[x].handler = "running" \/ sinkCalls[x].race = "pending")
          => LET k == LockKey(x[2][1], x[2][2])
             IN  userLocks[k] # 0
                 => /\ call[userLocks[k]].pc \in BodyPcs
                    /\ KeyOf(userLocks[k]) = x[2]
    /\ \A c \in Calls :
          call[c].pc \in {"idle", "done"} => \A k \in LockKeys : userLocks[k] # c

\* a later evaluation for the key has returned its exit event while the
\* logger's handler for the earlier enter event is still running
C14_Witness ==
    \E c \in Calls :
        /\ call[c].pc = "done"
        /\ call[c].waitOn = 0
        /\ call[c].result = "ok"
        /\ call[c].returned = << [type |-> "exit", id |-> "B"] >>
        /\ sinkCalls[<< "logger", KeyOf(c), "B", "enter" >>].handler = "running"
        /\ sinkCalls[<< "logger", KeyOf(c), "B", "enter" >>].race = "timeout"
        /\ userLocks[LockKeyOf(c)] = 0

\* C15: the sinks are invoked for a transition event only after the new
\* active set of the key has been persisted: in the step that hands an event
\* over, the stored active set already holds an entered region and no longer
\* holds an exited one.
C15_DispatchStep ==
    \A x \in StateKeys \X RegionIds :
        sinkLog'[x] # sinkLog[x]
        => /\ sinkLog'[x].last = "enter"
              => x[2] \in userGeofenceState'[x[1]].activeGeofenceIds
           /\ sinkLog'[x].last = "exit"
              => x[2] \notin userGeofenceState'[x[1]].activeGeofenceIds

C15_DispatchAfterPersist == [][C15_DispatchStep]_vars

\* C17: the logger is always registered and enabled, and every event an
\* evaluation produces is handed to the logger exactly once, whatever other
\* sinks are configured.
C17_LoggerRegistered ==
    /\ Registered("logger")
    /\ adapters[AdapterAt("logger")].enabled

C17_LoggerStep ==
    \A c \in Calls :
        (call[c].pc \in {"findState", "creating"} /\ call'[c].pc \in {"updating", "done"})
        => \A i \in 1..Len(call'[c].events) :
              LET x == << "logger", KeyOf(c), call'[c].events[i].id,
                          call'[c].events[i].type >>
              IN  sinkCalls'[x].n = sinkCalls[x].n + 1

C17_LoggerGetsEveryEvent == [](C17_LoggerRegistered) /\ [][C17_LoggerStep]_vars

\* two events of one evaluation, each handed once to the logger, with the
\* webhook and the CDP adapter configured
C17_Witness ==
    \E c \in Calls :
        /\ call[c].pc = "updating"
        /\ Len(call[c].events) = 2
        /\ Len(adapters) = 3
        /\ \A i \in 1..2 : CallsOf("logger", KeyOf(c), call[c].events[i]).n = 1

\* C18: the handlers of the built-in sinks never let a failure escape: the
\* promise of a handler of the logger, the webhook or the CDP adapter never
\* rejects, and after a failed write it has resolved.
C18_HandlersNeverReject ==
    \A x \in SinkCallIds :
        x[1] \in {"logger", "webhook", "cdp"}
        => /\ sinkCalls[x].handler # "rejected"
           /\ sinkCalls[x].failed => sinkCalls[x].handler = "resolved"

\* the evaluation of call c runs its steps 3-4 in this step
Evaluates(c) ==
    /\ call[c].pc \in {"findState", "creating"}
    /\ call'[c].pc \in {"updating", "done"}

\* the stored row of call c's key
Row(c) == userGeofenceState[KeyOf(c)]

\* C19: evaluate called twice in a row for a key with the same position and
\* an unchanged region set: the second call produces no event, keeps the
\* active set, and returns an empty list.
C19_SecondCallStep ==
    \A c \in Calls :
        /\ (Evaluates(c) /\ Row(c).exists /\ Row(c).lastPos = Input(c).pos)
           => /\ call'[c].pc = "updating"
              /\ call'[c].events = << >>
              /\ call'[c].current = Row(c).activeGeofenceIds
        /\ (call[c].pc = "updating" /\ call'[c].pc = "done"
            /\ Row(c).lastPos = Input(c).pos /\ call[c].events = << >>)
           => /\ call'[c].returned = << >>
              /\ userGeofenceState'[KeyOf(c)].activeGeofenceIds = Row(c).activeGeofenceIds

C19_SecondCallIsSilent == [][C19_SecondCallStep]_vars

\* a second report at the position of the first, inside a region: no event
C19_Witness ==
    \E c \in Calls :
        /\ call[c].pc = "updating"
        /\ Row(c).exists
        /\ Row(c).lastPos = Input(c).pos
        /\ Row(c).activeGeofenceIds # {}
        /\ call[c].current = Row(c).activeGeofenceIds
        /\ call[c].events = << >>

\* the position of call c lies outside every geofence of the set
Outside(c, geofences) ==
    \A g \in geofences :
        ~isPointInPolygon(Input(c).pos.lat, Input(c).pos.lng, Coordinates(g))

C20_OutsideStep ==
    \A c \in Calls :
        /\ (Evaluates(c) /\ Outside(c, RegionIds))
           => LET previous == IF Row(c).exists THEN Row(c).activeGeofenceIds ELSE {}
                  exits == {[type |-> "exit", id |-> g] : g \in previous}
              IN  /\ call'[c].current = {}
                  /\ EventSet(call'[c].events) \subseteq exits
                  /\ call'[c].pc = "updating"
                     => /\ EventSet(call'[c].events) = exits
                        /\ Len(call'[c].events) = Cardinality(previous)
        /\ (call[c].pc = "updating" /\ call'[c].pc = "done"
            /\ call'[c].result = "ok" /\ Outside(c, RegionIds))
           => /\ userGeofenceState'[KeyOf(c)].activeGeofenceIds = {}
              /\ call'[c].returned = call[c].events

C16_EvaluateAlwaysSettles ==
    /\ \A c \in Calls : (call[c].pc \in BodyPcs) ~> (call[c].pc \notin BodyPcs)
    /\ \A k \in LockKeys : (userLocks[k] # 0) ~> (userLocks[k] = 0)

(***************************************************************************)
(* The service for one user who moves between the regions: reports from    *)
(* inside A only, inside both, and inside B only, with database calls that *)
(* succeed.                                                                *)
(***************************************************************************)
PosB == [lat |-> 1, lng |-> 12]

OrderBodies ==
    [appId : {"app1"}, userId : {"u1"}, pos : {PosA, PosAB, PosB}, accuracy : {Accuracy}]

NextOrder ==
    \/ \E c \in Calls, b \in OrderBodies : POST(c, b)
    \/ \E c \in Calls : FetchRead(c)
    \/ \E c \in Calls : FetchDone(c)
    \/ \E c \in Calls : FindStateDone(c)
    \/ \E c \in Calls : CreateDone(c)
    \/ \E c \in Calls : UpdateDone(c)
    \/ Respond

SpecOrder == Init /\ [][NextOrder]_vars

\* C21: in the event list of one evaluation every exit event comes before
\* every enter event: no enter is followed, anywhere later in the list, by an
\* exit.
C21_ExitsBeforeEnters ==
    \A c \in Calls :
        \A i, j \in 1..Len(call[c].events) :
            (call[c].events[i].type = "enter" /\ call[c].events[j].type = "exit")
                => j < i

(***************************************************************************)
(* The position route with reports that fail the schema: safeParse fails   *)
(* and the handler answers 400 before evaluatePosition is called.          *)
(***************************************************************************)
InvalidBodies ==
    {[appId |-> "app1", userId |-> "u1", pos |-> p, accuracy |-> Accuracy] :
        p \in {P(91, 3), P(-91, 3), P(1, 181), P(1, -181)}}
    \cup {[appId |-> "app1", userId |-> "u1", pos |-> PosA, accuracy |-> -1]}

ValidateBodies ==
    [appId : {"app1"}, userId : {"u1"}, pos : {PosA, PosAB}, accuracy : {0, Accuracy}]
    \cup InvalidBodies

\* lines 27-38: the handler returns the 400 response
Reject(c, b) ==
    /\ ~Settling
    /\ call[c].pc = "idle"
    /\ \A d \in 1..(c - 1) : call[d].pc # "idle"
    /\ ~ValidReport(b)
    /\ call' = [call EXCEPT ![c] = [IdleCall EXCEPT !.pc = "done", !.body = b,
                                                   !.result = "invalid"]]
    /\ reports < MaxReports
    /\ reports' = reports + 1
    /\ UNCHANGED << geometry, clientVars, adapters, geofenceTable, userGeofenceState, geofenceCache, userLocks,
                    now, adminPc, sinkLog, sinkCalls, envSteps >>

NextValidate ==
    \/ \E c \in Calls, b \in ValidateBodies : POST(c, b)
    \/ \E c \in Calls, b \in ValidateBodies : Reject(c, b)
    \/ \E c \in Calls : FetchRead(c)
    \/ \E c \in Calls : FetchDone(c)
    \/ \E c \in Calls : FindStateDone(c)
    \/ \E c \in Calls : CreateDone(c)
    \/ \E c \in Calls : UpdateDone(c)
    \/ Respond

SpecValidate == Init /\ [][NextValidate]_vars

OutOfRange(b) ==
    \/ b.pos.lat < -90 \/ b.pos.lat > 90
    \/ b.pos.lng < -180 \/ b.pos.lng > 180
    \/ b.accuracy < 0

\* a request whose body is out of range is never anywhere but answered 400
C22_NeverEvaluated ==
    \A c \in Calls :
        (call[c].pc # "idle" /\ OutOfRange(call[c].body))
            => /\ call[c].pc = "done" /\ call[c].result = "invalid"
               /\ call[c].events = << >> /\ call[c].returned = << >>
               /\ \A k \in LockKeys : userLocks[k] # c

\* the step that receives an out-of-range report takes no lock, creates or
\* changes no state row and invokes no sink
C22_RejectStep ==
    \A c \in Calls :
        (call[c].pc = "idle" /\ call'[c].pc # "idle" /\ OutOfRange(call'[c].body))
            => /\ userLocks' = userLocks
               /\ userGeofenceState' = userGeofenceState
               /\ sinkLog' = sinkLog
               /\ sinkCalls' = sinkCalls
               /\ geofenceCache' = geofenceCache

\* C22: a position report whose latitude is outside [-90, 90], whose
\* longitude is outside [-180, 180] or whose accuracy is negative is answered
\* as a client error before evaluation: no lock is taken, no state row is
\* created or changed, and no sink is invoked.
C22_InvalidReportRejected == [](C22_NeverEvaluated) /\ [][C22_RejectStep]_vars

\* a report with negative accuracy has been answered 400 while an earlier
\* report of the same user is being evaluated under the lock
C22_Witness ==
    \E c, e \in Calls :
        /\ call[c].pc = "done" /\ call[c].result = "invalid"
        /\ call[c].body.accuracy < 0
        /\ call[e].pc \in BodyPcs
        /\ call[e].body.userId = call[c].body.userId

(***************************************************************************)
(* The page: a monitor constructed in local or in remote mode, the         *)
(* application calling it, its timers firing, the server answering.        *)
(***************************************************************************)
InitClient ==
    /\ InitServer
    /\ geofenceTable = [g \in RegionIds |-> "enabled"]
    /\ adapters = createAdapterConfig(DefaultEnv)
    /\ \E serverEvaluation \in BOOLEAN : Constructed(serverEvaluation)
    /\ geometry = NoGeometry

NextClient ==
    \/ Start
    \/ \E list \in GeofenceLists : StartFetched(list)
    \/ StartFetchFails
    \/ Stop
    \/ \E p \in ClientPositions : SetTestPosition(p)
    \/ \E h \in timers.active : PollTick(h)
    \/ Refresh
    \/ \E list \in GeofenceLists : RefreshFetched(list)
    \/ RefreshFetchFails
    \/ \E evs \in ResponseEvents : ServerResponds(evs)
    \/ ServerFails
    \/ ClientTick

SpecClient == InitClient /\ [][NextClient]_vars

\* a run is in flight exactly while the processing flag is set
C23_FlagMeansRun ==
    /\ pending.run.active <=> monitor.positionProcessingInProgress
    /\ pending.run.active <=> monitor.serverCallInProgress
    /\ pending.run.active => monitor.serverEvaluationEnabled

\* a position that arrives while a run is in flight starts nothing, sends
\* nothing, emits nothing and is not kept for later
C23_DropStep ==
    (wire'.arrival # "none" /\ pending.run.active)
        => /\ pending'.run = pending.run
           /\ wire'.lastSentAt = wire.lastSentAt
           /\ emitted'.batch = << >>
           /\ monitor'.currentGeofences = monitor.currentGeofences
           /\ monitor'.lastReportedPosition = monitor.lastReportedPosition
           /\ monitor'.positionProcessingInProgress

\* C23: in the monitor at most one position-processing run is in flight at
\* any time: a position arriving from a poll tick, a test injection or a
\* refresh while a run is in flight is dropped, neither queued nor processed
\* concurrently.
C23_OneRunInFlight == [](C23_FlagMeansRun) /\ [][C23_DropStep]_vars

\* a poll tick has just delivered a position other than the one whose report
\* is still in flight
C23_Witness ==
    /\ wire.arrival = "poll"
    /\ pending.run.active
    /\ monitor.lastPosition # pending.run.position

\* the events of a batch that concern region g
EventsOf(batch, g) == SelectSeq(batch, LAMBDA e : e.id = g)

\* in remote mode the tracked set is the set of regions whose last callback
\* was an enter
C24_TrackedIsDelivered ==
    monitor.serverEvaluationEnabled
        => monitor.currentGeofences = {g \in RegionIds : emitted.last[g] = "enter"}

\* the callbacks of a step continue the alternation of each region: the first
\* differs from the last one delivered before (an enter when there was none),
\* and neighbours differ
C24_AlternateStep ==
    monitor.serverEvaluationEnabled =>
        \A g \in RegionIds :
            LET evs == EventsOf(emitted'.batch, g)
            IN  /\ Len(evs) > 0 =>
                      evs[1].type = (IF emitted.last[g] = "enter" THEN "exit" ELSE "enter")
                /\ \A i \in 1..(Len(evs) - 1) : evs[i].type # evs[i + 1].type
                /\ Len(evs) > 0 => emitted'.last[g] = evs[Len(evs)].type
                /\ Len(evs) = 0 => emitted'.last[g] = emitted.last[g]

\* C24: in remote mode the events of a response are reconciled against the
\* locally tracked set before emission (an enter is emitted only for a region
\* that is not tracked, which is then added; an exit only for a tracked one,
\* which is then removed), so for every region the enter and exit callbacks
\* delivered to the application strictly alternate, whatever the server
\* returns.
C24_CallbacksAlternate == [](C24_TrackedIsDelivered) /\ [][C24_AlternateStep]_vars

\* a response of two events of which only an enter was passed on
C24_Witness ==
    /\ monitor.serverEvaluationEnabled
    /\ wire.received = 2
    /\ Len(emitted.batch) = 1
    /\ emitted.batch[1].type = "enter"
    /\ emitted.batch[1].id \in monitor.currentGeofences

\* a step in which the monitor puts a position report on the network
Sends == ~pending.run.active /\ pending'.run.active

\* C25: in remote mode at least the minimum inter-report interval (5 s) lies
\* between the sending of any two consecutive position reports, also when the
\* earlier report failed.
C25_ReportsSpacedApart ==
    [][(Sends /\ wire.lastSentAt > 0)
          => clock - wire.lastSentAt >= MIN_REPORT_INTERVAL]_vars

\* a step in which the report in flight is answered successfully
Succeeds == pending.run.active /\ ~pending'.run.active /\ ~wire'.failed

\* the gate's reference is the position of the last report that succeeded
C26_ReferenceIsLastSuccess == monitor.lastReportedPosition = wire.lastOk

C26_GateStep ==
    \* a position is forwarded only when none was reported yet or it is at
    \* least the threshold away from the last one reported successfully
    /\ Sends => \/ wire.lastOk = NoPosition
                \/ calculateDistance(wire.lastOk, pending'.run.position)
                       >= SIGNIFICANT_MOVEMENT_THRESHOLD
    \* the first position is reported
    /\ (/\ monitor.serverEvaluationEnabled /\ wire'.arrival # "none"
        /\ ~pending.run.active /\ wire.lastOk = NoPosition)
           => Sends /\ pending'.run.position = monitor'.lastPosition
    \* the reference changes only when a report succeeds, to that report's
    \* position
    /\ monitor'.lastReportedPosition # monitor.lastReportedPosition => Succeeds
    /\ Succeeds => monitor'.lastReportedPosition = pending.run.position

\* C26: in remote mode the movement gate measures from the last reported
\* position, not the last polled one: the first position is always reported,
\* a later one is forwarded only if it is at least the threshold away from the
\* last successfully reported position, and the last reported position
\* changes only when a report succeeds.
C26_GateFromLastReported == [](C26_ReferenceIsLastSuccess) /\ [][C26_GateStep]_vars

\* with the report interval elapsed, a position 33 m from the last reported
\* one has arrived and was not forwarded: the reference is unchanged
C26_Witness ==
    /\ monitor.serverEvaluationEnabled
    /\ wire.arrival # "none"
    /\ ~pending.run.active
    /\ monitor.lastReportedPosition = P(0, 0)
    /\ monitor.lastPosition = P(300, 0)
    /\ clock - monitor.lastServerReportTime >= MIN_REPORT_INTERVAL

\* C27: in remote mode, after a server response that contains at least one
\* event no further position report is sent until the cooldown (15 s) has
\* elapsed since that response was handled.
C27_CooldownAfterEvents ==
    [][(Sends /\ wire.eventsAt > 0) => clock - wire.eventsAt >= EVENT_COOLDOWN]_vars

\* a report is in flight that was sent once the cooldown after a response
\* with events had elapsed
C27_Witness ==
    /\ pending.run.active
    /\ wire.eventsAt > 0
    /\ wire.lastSentAt >= wire.eventsAt + EVENT_COOLDOWN
    /\ monitor.currentGeofences # {}

\* C28: stop() cancels polling: when a stop() of a running monitor returns,
\* no polling timer of the monitor remains active, for every interleaving of
\* start() and stop() calls, overlapping start() calls included.
C28_StopCancelsPolling ==
    [][(monitor.isRunning /\ ~monitor'.isRunning) => timers'.active = {}]_vars

\* the events the coordinator's loops produce for an evaluation that starts
\* from the active set `previous` and finds `current` among `geofences`
CoordinatorEvents(previous, current, geofences) ==
    EnterEvents(previous, current) \o ExitEvents(previous, current, geofences).events

\* in local mode, a step that starts from tracked regions which are all in
\* the list in use emits the events the coordinator produces from the same
\* previous set, list and membership
C29_AgreeStep ==
    (~monitor.serverEvaluationEnabled /\ monitor.currentGeofences \subseteq monitor'.geofences)
        => /\ EventSet(emitted'.batch)
                  = EventSet(CoordinatorEvents(monitor.currentGeofences,
                                               monitor'.currentGeofences,
                                               monitor'.geofences))
           /\ wire'.arrival # "none" =>
                  monitor'.currentGeofences =
                      {g \in monitor'.geofences :
                          isPointInGeofence(monitor'.lastPosition, g)}

\* C29: the local tracker and the server-side coordinator agree on transition
\* semantics: for the same positions, the same fixed region set and the same
\* membership results, the set of (kind, regionId) events the monitor emits in
\* local mode at each step equals the set the coordinator returns for it.
C29_LocalAgreesWithCoordinator == [][C29_AgreeStep]_vars

\* a local step that left A and entered B
C29_Witness ==
    /\ ~monitor.serverEvaluationEnabled
    /\ wire.arrival # "none"
    /\ EventSet(emitted.batch) = {[type |-> "exit", id |-> "A"], [type |-> "enter", id |-> "B"]}
    /\ monitor.currentGeofences = {"B"}

\* how many events of the kind for region g a batch holds
CountOf(batch, g, kind) ==
    Cardinality({i \in 1..Len(batch) : batch[i].id = g /\ batch[i].type = kind})

C30_RefreshStep ==
    (/\ ~monitor.serverEvaluationEnabled
     /\ pending.refresh = "pending" /\ pending'.refresh = "resolved"
     /\ monitor.lastPosition # NoPosition)
        => /\ monitor'.currentGeofences =
                  {g \in monitor'.geofences : isPointInGeofence(monitor.lastPosition, g)}
           /\ \A g \in RegionIds :
                  /\ CountOf(emitted'.batch, g, "enter") =
                         (IF g \in monitor'.currentGeofences \ monitor.currentGeofences
                          THEN 1 ELSE 0)
                  /\ CountOf(emitted'.batch, g, "exit") =
                         (IF g \in monitor.currentGeofences \ monitor'.currentGeofences
                          THEN 1 ELSE 0)

\* C30: in local mode, when refresh() resolves the locally active set equals
\* the membership of the last known position in the newly fetched list, and
\* every region that entered or left the active set because of the refresh,
\* a region that was active and is no longer listed included, has had exactly
\* one matching enter or exit emitted.
C30_RefreshReconciles == [][C30_RefreshStep]_vars

(***************************************************************************)
(* The kernel applied to every point of the grid and every vertex list,    *)
(* well-formed or not.                                                     *)
(***************************************************************************)
\* step 3 of performEvaluation for the point, over a list that holds the two
\* rectangles and the row with the short boundary
ApplyStep3 ==
    /\ geometry.step = "applied"
    /\ geometry.k = 0
    /\ geometry' = [geometry EXCEPT
           !.step = "evaluated",
           !.current = CurrentGeofenceIds(geometry.point, RegionIds \cup {"M"})]
    /\ UNCHANGED << serverVars, clientVars >>

InitKernel ==
    /\ InitServer
    /\ geofenceTable = [g \in RegionIds |-> "enabled"]
    /\ adapters = createAdapterConfig(DefaultEnv)
    /\ Constructed(FALSE)
    /\ \E p \in GridPoints, v \in Polygons \cup Malformed :
           geometry = [NoGeometry EXCEPT !.point = p, !.vertices = v, !.step = "input"]

NextKernel ==
    \/ ApplyKernel
    \/ ApplyRotated
    \/ ApplyStep3

SpecKernel == InitKernel /\ [][NextKernel]_vars

\* C31: isPointInPolygon is rotation-invariant: for every point and every
\* valid simple polygon, the same vertices listed from any starting index
\* give the same inside/outside result.
C31_RotationInvariant ==
    (geometry.step = "applied" /\ geometry.vertices \in Polygons)
        => geometry.inside = geometry.base

\* a point strictly inside the L-shaped region is found inside with the list
\* started three vertices later
C31_Witness ==
    /\ geometry.step = "applied"
    /\ geometry.vertices = LShape
    /\ geometry.point = P(1, 5)
    /\ geometry.k = 3
    /\ geometry.inside

\* C32: isPointInPolygon called with a vertex list whose length is not the
\* fixed count (8) returns false, so a region with a malformed boundary is
\* never in the active set an evaluation computes.
C32_MalformedIsOutside ==
    /\ (geometry.step \in {"applied", "evaluated"} /\ Len(geometry.vertices) # 8)
           => ~geometry.base /\ ~geometry.inside
    /\ geometry.step = "evaluated"
           => /\ "M" \notin geometry.current
              /\ geometry.current =
                     {g \in RegionIds : isPointInPolygon(geometry.point.lat,
                                            geometry.point.lng, Coordinates(g))}

\* a point that the rectangle A contains has been evaluated against a list
\* with the short boundary: A is current, M is not
C32_Witness ==
    /\ geometry.step = "evaluated"
    /\ geometry.point = P(1, 3)
    /\ geometry.current = {"A"}
    /\ Len(geometry.vertices) = 7

\* the stored active regions of call c's key that are not in the list the
\* call evaluates against
Vanished(c) == Row(c).activeGeofenceIds \ call[c].geofences

C33_VanishedStep ==
    \A c \in Calls :
        (/\ call[c].pc = "findState" /\ Row(c).exists /\ Vanished(c) # {}
         /\ call'[c].pc # "findState" /\ call'[c].failedAt # "find")
            => /\ call'[c].pc = "updating"
               /\ \A g \in Vanished(c) :
                      /\ g \notin call'[c].current
                      /\ Cardinality({i \in 1..Len(call'[c].events) :
                             call'[c].events[i] = [type |-> "exit", id |-> g]}) = 1

\* C33: when a region recorded in a key's stored active set is no longer in
\* the enabled region list, the next evaluation of the key goes on to persist
\* an active set without the region and emits one exit for it.
C33_VanishedRegionExits == [][C33_VanishedStep]_vars

\* the step in which the create of call c's row resolves and steps 3-4 run
Creates(c) ==
    call[c].pc = "creating" /\ call'[c].pc # "creating" /\ call'[c].failedAt # "create"

\* the enter events for the regions of S that contain the position of call c
EntersAmong(c, S) ==
    {[type |-> "enter", id |-> g] :
        g \in {h \in S : isPointInPolygon(Input(c).pos.lat, Input(c).pos.lng,
                                          Coordinates(h))}}

\* a state row, once created, is never deleted
C34_NeverDeleted ==
    \A k \in StateKeys : userGeofenceState[k].exists => userGeofenceState'[k].exists

\* the first evaluation creates the row empty, with the reported position
C34_CreatedEmpty ==
    \A c \in Calls :
        Creates(c) =>
            /\ ~Row(c).exists
            /\ userGeofenceState'[KeyOf(c)] =
                   [exists |-> TRUE, activeGeofenceIds |-> {}, lastPos |-> Input(c).pos]
            /\ \A i \in 1..Len(call'[c].events) : call'[c].events[i].type = "enter"

ReturnsOk(c) == call[c].pc # "done" /\ call'[c].pc = "done" /\ call'[c].result = "ok"

C35_PersistStep ==
    \A c \in Calls :
        ReturnsOk(c) =>
            LET row == userGeofenceState'[KeyOf(c)]
            IN  /\ row.exists
                /\ row.lastPos = call[c].body.pos
                /\ call[c].waitOn = 0 =>
                       row.activeGeofenceIds =
                           {g \in call[c].geofences :
                               isPointInPolygon(call[c].body.pos.lat, call[c].body.pos.lng,
                                                Coordinates(g))}

\* C35: after every successful evaluate the key's persisted active set is
\* exactly the set of regions of the list used by that evaluation that
\* contain the reported position, and the persisted last position is the
\* reported position.
C35_PersistedIsEvaluated == [][C35_PersistStep]_vars

\* C38: no position report is dropped: when an evaluate call returns
\* successfully, its position has been evaluated and is the key's persisted
\* last position, also for a call that arrived while another evaluation of
\* the key was in flight.
C38_NoReportDropped ==
    \A c \in Calls :
        (Waited(c) /\ call[c].result = "ok")
            => /\ Row(c).exists
               /\ Row(c).lastPos = call[c].body.pos

(***************************************************************************)
(* The service with a configuration assembled by hand, in which the        *)
(* webhook adapter is registered but not enabled, next to the built-in     *)
(* configuration with every adapter enabled and the one with the custom    *)
(* adapter.                                                                *)
(***************************************************************************)
ManualConfig ==
    << LoggerAdapter, WebhookAdapter(DefaultEnv), CDPAdapter([webhook |-> FALSE, cdp |-> TRUE]) >>

SinkConfigs ==
    { ManualConfig,
      createAdapterConfig([webhook |-> TRUE, cdp |-> TRUE]),
      Register(createAdapterConfig([webhook |-> TRUE, cdp |-> FALSE]), CustomAdapter, 1) }

InitSinks == InitState /\ adapters \in SinkConfigs

SpecSinks == InitSinks /\ [][NextDispatch]_vars

\* whether the configuration holds an enabled adapter of the name
Enabled(name) == \E i \in 1..Len(adapters) : adapters[i].name = name /\ adapters[i].enabled

\* a handler of an adapter that is not enabled has never been called
C36_DisabledNeverInvoked ==
    \A x \in SinkCallIds : ~Enabled(x[1]) => sinkCalls[x] = NoSinkCall

\* an evaluation that goes on to persist has called, for each of its events
\* and each enabled adapter, the handler of the event's kind once, and no
\* other handler; what it then returns are these events
C36_DispatchStep ==
    \A c \in Calls :
        /\ (Evaluates(c) /\ call'[c].pc = "updating") =>
               /\ Len(call'[c].events) = Cardinality(EventSet(call'[c].events))
               /\ \A x \in SinkCallIds :
                      sinkCalls'[x].n = sinkCalls[x].n +
                          (IF /\ Enabled(x[1])
                              /\ x[2] = KeyOf(c)
                              /\ [type |-> x[4], id |-> x[3]] \in EventSet(call'[c].events)
                           THEN 1 ELSE 0)
        /\ ReturnsOk(c) => call'[c].returned = call[c].events /\ sinkCalls' = sinkCalls

\* C36: for every successful evaluate the (kind, regionId) pairs dispatched
\* to the sinks are the events returned to the caller: each returned event
\* is dispatched exactly once, to the handler matching its kind, nothing else
\* is dispatched, and sinks that are not enabled are never invoked.
C36_DispatchedIsReturned == [](C36_DisabledNeverInvoked) /\ [][C36_DispatchStep]_vars

\* an evaluation has returned enter A and enter B with the webhook adapter
\* registered but not enabled: the logger and the CDP adapter were called once
\* for each, the webhook adapter never
C36_Witness ==
    \E c \in Calls :
        /\ adapters = ManualConfig
        /\ call[c].pc = "done" /\ call[c].result = "ok"
        /\ Len(call[c].returned) = 2
        /\ \A i \in 1..2 :
               /\ CallsOf("logger", KeyOf(c), call[c].returned[i]).n = 1
               /\ CallsOf("cdp", KeyOf(c), call[c].returned[i]).n = 1
               /\ CallsOf("webhook", KeyOf(c), call[c].returned[i]).n = 0

(***************************************************************************)
(* The service with region mutations that invalidate the cache (PATCH and  *)
(* DELETE), a cache that does not expire and database calls that succeed.  *)
(***************************************************************************)
NextInvalidate ==
    \/ \E c \in Calls, b \in Bodies : POST(c, b)
    \/ \E c \in Calls : FetchRead(c)
    \/ \E c \in Calls : FetchDone(c)
    \/ \E c \in Calls : FindStateDone(c)
    \/ \E c \in Calls : CreateDone(c)
    \/ \E c \in Calls : UpdateDone(c)
    \/ Respond
    \/ \E g \in MutableRegions, e \in {"enabled", "disabled"} : PatchWrite(g, e)
    \/ \E g \in MutableRegions : DeleteWrite(g)
    \/ MutationReturn

SpecInvalidate == Init /\ [][NextInvalidate]_vars

\* C37: once the region cache has been invalidated, no later evaluation uses
\* a region list fetched from the store before the invalidation: with every
\* mutation of the store followed by its invalidation, an evaluation that
\* starts on a cache hit uses the store's current enabled regions.
C37_NoStaleListAfterInvalidation ==
    [][\A c \in Calls :
          (call[c].pc = "idle" /\ call'[c].pc = "findState" /\ adminPc = "idle")
              => call'[c].geofences = EnabledGeofences]_vars

(***************************************************************************)
(* One page in remote mode reporting for one user to the service.  The     *)
(* regions of the store are squares around latitude 0 (A) and latitude     *)
(* 0.0006 (B), in millionths of a degree like the monitor's positions.     *)
(* With one report in flight at a time (C23) no two evaluations of the key *)
(* overlap, so the evaluation of a report is taken as one step with every  *)
(* database call succeeding.                                               *)
(***************************************************************************)
FieldCoordinates(g) ==
    IF g = "A"
    THEN << P(-200,-100), P(-200,0), P(-200,100), P(0,100),
            P(200,100), P(200,0), P(200,-100), P(0,-100) >>
    ELSE << P(400,-100), P(400,0), P(400,100), P(600,100),
            P(800,100), P(800,0), P(800,-100), P(600,-100) >>

\* the key of the monitor's user: the route's schema drops appId
RemoteKey == << Undefined, "u1" >>

\* POST /api/events/position for the report in flight: evaluatePosition with
\* the lock free, steps 1-5 of performEvaluation
ServerEvaluates ==
    /\ pending.run.active
    /\ ~wire.applied
    /\ LET pos == pending.run.position
           list == IF CacheValid(now) THEN geofenceCache.data ELSE EnabledGeofences
           row == userGeofenceState[RemoteKey]
           previous == IF row.exists THEN row.activeGeofenceIds ELSE {}
           current == {g \in list : isPointInPolygon(pos.lat, pos.lng, FieldCoordinates(g))}
           events == EnterEvents(previous, current) \o ExitEvents(previous, current, list).events
       IN  /\ geofenceCache' = IF CacheValid(now) THEN geofenceCache
                               ELSE [present |-> TRUE, data |-> list, timestamp |-> now]
           /\ userGeofenceState' = [userGeofenceState EXCEPT ![RemoteKey] =
                  [exists |-> TRUE, activeGeofenceIds |-> current, lastPos |-> pos]]
           /\ sinkLog' = dispatchEvent(sinkLog, RemoteKey, events)
           /\ sinkCalls' = InvokeHandlers(sinkCalls, adapters, RemoteKey, events)
           /\ wire' = [wire EXCEPT !.applied = TRUE, !.response = events]
    /\ UNCHANGED << geometry, monitor, timers, pending, emitted, clock, geofenceTable,
                    userLocks, call, now, adminPc, envSteps, reports, adapters >>

\* the response of the evaluated report reaches the page
ResponseArrives ==
    /\ wire.applied
    /\ ServerResponds(wire.response)

InitRemote ==
    /\ InitServer
    /\ geofenceTable = [g \in RegionIds |-> "enabled"]
    /\ adapters = createAdapterConfig(DefaultEnv)
    /\ Constructed(TRUE)
    /\ geometry = NoGeometry

NextRemote ==
    \/ Start
    \/ StartFetched(RegionIds)
    \/ Stop
    \/ \E p \in ClientPositions : SetTestPosition(p)
    \/ \E h \in timers.active : PollTick(h)
    \/ ServerEvaluates
    \/ ResponseArrives
    \/ ServerFails
    \/ ClientTick

SpecRemote == InitRemote /\ [][NextRemote]_vars

\* C39: in remote mode with a single client reporting for a key, whenever no
\* report is in flight the client's locally active set equals the server's
\* stored active set of the key, even if a report's response is lost or fails
\* after the server has applied it.
C39_ClientMatchesServer ==
    ~pending.run.active
        => monitor.currentGeofences = userGeofenceState[RemoteKey].activeGeofenceIds

\* C40: while the monitor is stopped no enter or exit callback is delivered
\* to listeners: a server response that arrives after stop(), and a refresh()
\* or a manual position injection made while not running, emit nothing.
C40_SilentWhileStopped ==
    ~monitor.isRunning => emitted.batch = << >>

====
